---- MODULE Spec2Model ----
(***************************************************************************)
(* MovieWebApp: the DataManager (data_manager.py), the two tables of       *)
(* models.py and the Flask routes of app.py, as a state machine over the   *)
(* contents of the SQLite store.                                           *)
(*                                                                         *)
(* Encoding of Python values.  A str is a tuple of one-character strings   *)
(* ("N/A" is <<"N", "/", "A">>).  An optional value is None == <<>> or     *)
(* Some(v) == <<v>>.  A float is the decimal it denotes, Dec(m, e) for     *)
(* m * 10^e, normalised so that equal numbers are equal values.            *)
(***************************************************************************)
EXTENDS Integers, Sequences, FiniteSets, Bags, TLC

VARIABLES users, movies, order, omdb_api_key, inflight, last

vars == <<users, movies, order, omdb_api_key, inflight, last>>

\* ------------------------------------------------------------------ bounds
MaxUsers == 2
MaxMovieId == 2
MaxEnrichId == 1
MaxAppMovieId == 2
MaxInflight == 2

\* ------------------------------------------------------- program constants
MinNameLen == 2
MaxNameLen == 100
MinTitleLen == 1
MaxTitleLen == 200

\* ----------------------------------------------------------- Python values
None == <<>>
Some(v) == <<v>>
IsNone(o) == o = <<>>
Val(o) == o[1]

\* `not x` of Python for an optional str: None and "" are falsy.
Falsy(o) == IsNone(o) \/ Val(o) = <<>>

IsSpace(c) == c \in {" ", "\t", "\n"}

Digits == <<"0", "1", "2", "3", "4", "5", "6", "7", "8", "9">>

IsDigit(c) == \E i \in 1..10 : Digits[i] = c

DigitVal(c) == (CHOOSE i \in 1..10 : Digits[i] = c) - 1

UpperChars == <<"A", "B", "I", "N">>
LowerChars == <<"a", "b", "i", "n">>

\* str.lower() on one character of the alphabet the model draws from.
LowerChar(c) ==
    IF \E i \in 1..Len(UpperChars) : UpperChars[i] = c
    THEN LowerChars[CHOOSE i \in 1..Len(UpperChars) : UpperChars[i] = c]
    ELSE c

\* str.lower()
Lower(s) == [i \in 1..Len(s) |-> LowerChar(s[i])]

RECURSIVE LStrip(_)
LStrip(s) ==
    IF s # <<>> /\ IsSpace(Head(s)) THEN LStrip(Tail(s)) ELSE s

RECURSIVE RStrip(_)
RStrip(s) ==
    IF s # <<>> /\ IsSpace(s[Len(s)]) THEN RStrip(SubSeq(s, 1, Len(s) - 1)) ELSE s

\* str.strip()
Strip(s) == RStrip(LStrip(s))

\* The digits of a Python numeric literal part: digits, with single
\* underscores allowed between two digits.
RECURSIVE IsDigitRun(_)
IsDigitRun(s) ==
    /\ s # <<>>
    /\ IsDigit(s[1])
    /\ \/ Len(s) = 1
       \/ IsDigitRun(Tail(s))
       \/ Len(s) >= 3 /\ s[2] = "_" /\ IsDigitRun(SubSeq(s, 3, Len(s)))

RECURSIVE DigitsValue(_, _)
DigitsValue(s, acc) ==
    IF s = <<>> THEN acc
    ELSE IF s[1] = "_" THEN DigitsValue(Tail(s), acc)
    ELSE DigitsValue(Tail(s), 10 * acc + DigitVal(s[1]))

RECURSIVE CountDigits(_)
CountDigits(s) ==
    IF s = <<>> THEN 0
    ELSE (IF IsDigit(s[1]) THEN 1 ELSE 0) + CountDigits(Tail(s))

Unsigned(s) ==
    IF s # <<>> /\ s[1] \in {"+", "-"} THEN Tail(s) ELSE s

Sign(s) == IF s # <<>> /\ s[1] = "-" THEN -1 ELSE 1

\* int(s) of a str: None stands for ValueError.
ParseInt(s) ==
    LET body == Unsigned(Strip(s))
    IN  IF IsDigitRun(body)
        THEN Some(Sign(Strip(s)) * DigitsValue(body, 0))
        ELSE None

RECURSIVE Normalise(_, _)
Normalise(m, e) ==
    IF m = 0 THEN <<0, 0>>
    ELSE IF m % 10 = 0 THEN Normalise(m \div 10, e + 1)
    ELSE <<m, e>>

Dec(m, e) == Normalise(m, e)

PointAt(s) ==
    IF \E i \in 1..Len(s) : s[i] = "."
    THEN CHOOSE i \in 1..Len(s) : s[i] = "." /\ \A j \in 1..(i - 1) : s[j] # "."
    ELSE 0

\* float(s) of a str written as [sign] digits [. digits] (or . digits):
\* None stands for ValueError.  The alphabet holds no exponent and none of
\* the words inf and nan.
ParseFloat(s) ==
    LET body == Unsigned(Strip(s))
        p == PointAt(body)
        ip == IF p = 0 THEN body ELSE SubSeq(body, 1, p - 1)
        fp == IF p = 0 THEN <<>> ELSE SubSeq(body, p + 1, Len(body))
        ok == /\ ip = <<>> \/ IsDigitRun(ip)
              /\ fp = <<>> \/ IsDigitRun(fp)
              /\ ip # <<>> \/ fp # <<>>
    IN  IF ok
        THEN Some(Dec(Sign(Strip(s)) * DigitsValue(ip \o fp, 0), 0 - CountDigits(fp)))
        ELSE None

\* ------------------------------------------------- the metadata provider
\* A field of the provider's JSON document: not there, null, or a string.
Missing == <<"missing">>
JNull == <<"null">>
JStr(s) == <<"str", s>>

\* dict.get(key): None when the key is missing or its value is null.
Get(f) == IF f[1] = "str" THEN Some(f[2]) ELSE None

\* dict.get(key, default): the default only when the key is missing.
GetDefault(f, d) == IF f[1] = "missing" THEN d ELSE Get(f)

NA == <<"N", "/", "A">>

\* What one HTTP exchange with the provider comes to: net is "ok" or the
\* way requests.get / raise_for_status failed; found is Response == 'True'.
Response(net, found, title, year, rating, genre) ==
    [net |-> net, found |-> found, Title |-> title, Year |-> year,
     imdbRating |-> rating, Genre |-> genre]

NetFailures == {"unreachable", "timeout", "http_error"}

\* DataManager.fetch_movie_data: the provider's document, or None.
fetch_movie_data(key, resp) ==
    IF Falsy(key) THEN None
    ELSE IF resp.net # "ok" THEN None
    ELSE IF resp.found THEN Some(resp)
    ELSE None

\* ------------------------------------------------------------- the store
MaxOf(S) == CHOOSE x \in S : \A y \in S : y <= x

MovieIds == {m.id : m \in movies}
UserIds == {u.id : u \in users}

\* SQLite assigns an INTEGER PRIMARY KEY one more than the largest in use.
NextMovieId == IF movies = {} THEN 1 ELSE MaxOf(MovieIds) + 1
NextUserId == IF users = {} THEN 1 ELSE MaxOf(UserIds) + 1

\* The app opens SQLite by URI alone and never issues PRAGMA foreign_keys,
\* so the ForeignKey of Movie.user_id is declared and not enforced.
ForeignKeysOn == FALSE

\* The id the store gives a new Movie: the one the object carries, or the
\* next rowid.
RowId(m) == IF IsNone(m.id) THEN NextMovieId ELSE Val(m.id)

\* The constraints of the movie table: id the primary key, title NOT NULL,
\* user_id a foreign key.
MovieIntegrityOk(m) ==
    /\ RowId(m) \notin MovieIds
    /\ ~IsNone(m.title)
    /\ ForeignKeysOn => m.user_id \in UserIds

\* The constraints of the user table: name NOT NULL.
UserIntegrityOk(name) == ~IsNone(name)

Returned(v) == <<"return", v>>
Raised(e) == <<"raise", e>>

\* Movie.query.get(movie_id)
MovieById(id) == IF id \in MovieIds THEN Some(CHOOSE m \in movies : m.id = id) ELSE None

\* A table scan yields the rows in rowid order.
RECURSIVE ById(_)
ById(S) ==
    IF S = {} THEN <<>>
    ELSE LET m == CHOOSE x \in S : \A y \in S : x.id <= y.id
         IN  <<m>> \o ById(S \ {m})

\* DataManager.get_users
get_users == users

\* DataManager.get_movies
get_movies(user_id) == ById({m \in movies : m.user_id = user_id})

\* The year column of add_movie.
ExtractYear(data) ==
    LET y == Get(data.Year)
    IN  IF ~Falsy(y) /\ Val(y) # NA THEN ParseInt(Val(y)) ELSE None

\* The rating column of add_movie.
ExtractRating(data) ==
    LET r == Get(data.imdbRating)
    IN  IF ~Falsy(r) /\ Val(r) # NA THEN ParseFloat(Val(r)) ELSE None

\* The genre column read without the check for the sentinel.
ExtractGenre_KeepSentinel(data) == GetDefault(data.Genre, None)

\* The genre column of add_movie.
ExtractGenre(data) ==
    LET g == GetDefault(data.Genre, None)
    IN  IF g = Some(NA) THEN None ELSE g

\* add_movie tidying the search title it stores when there is no metadata.
BuildMovie_Stripped(title, user_id, omdb_data) ==
    IF IsNone(omdb_data)
    THEN [id |-> None, title |-> Some(Strip(Val(title))), year |-> None,
          genre |-> None, rating |-> None, user_id |-> user_id]
    ELSE [id |-> None, title |-> GetDefault(Val(omdb_data).Title, title),
          year |-> ExtractYear(Val(omdb_data)),
          genre |-> ExtractGenre(Val(omdb_data)),
          rating |-> ExtractRating(Val(omdb_data)),
          user_id |-> user_id]

\* The Movie object add_movie builds, before the store gives it an id.
BuildMovie(title, user_id, omdb_data) ==
    IF IsNone(omdb_data)
    THEN [id |-> None, title |-> title, year |-> None, genre |-> None,
          rating |-> None, user_id |-> user_id]
    ELSE [id |-> None, title |-> GetDefault(Val(omdb_data).Title, title),
          year |-> ExtractYear(Val(omdb_data)),
          genre |-> ExtractGenre(Val(omdb_data)),
          rating |-> ExtractRating(Val(omdb_data)),
          user_id |-> user_id]

Row(m, id) ==
    [id |-> id, title |-> m.title, year |-> m.year, genre |-> m.genre,
     rating |-> m.rating, user_id |-> m.user_id]

\* A commit whose failed flush leaves the row behind.
CommitNewMovie_NoRollback(m) == movies \cup {Row(m, RowId(m))}

\* db.session.add(new_movie); db.session.commit(): the movie table after it.
\* A flush that violates a constraint rolls the transaction back.
CommitNewMovie(m) ==
    IF MovieIntegrityOk(m) THEN movies \cup {Row(m, RowId(m))} ELSE movies

\* db.session.add(movie); db.session.commit(); return movie
AddAndCommit(m) ==
    LET after == CommitNewMovie(m)
    IN  [movies |-> after,
         order |-> IF RowId(m) \in {x.id : x \in after} \ MovieIds
                   THEN Append(order, RowId(m)) ELSE order,
         ret |-> IF MovieIntegrityOk(m) THEN Returned(Row(m, RowId(m)))
                 ELSE Raised("IntegrityError")]

\* DataManager.add_movie: the store after the call and what the call gives.
DM_add_movie(title, user_id, resp) ==
    AddAndCommit(BuildMovie(title, user_id, fetch_movie_data(omdb_api_key, resp)))

\* DataManager.add_movie_object
DM_add_movie_object(movie) == AddAndCommit(movie)

\* update_movie falling back to the newest movie when the id matches none.
DM_update_movie_Fallback(movie_id, new_title) ==
    LET found == IF movies = {} THEN None
                 ELSE IF movie_id \in MovieIds THEN MovieById(movie_id)
                 ELSE MovieById(MaxOf(MovieIds))
    IN  IF IsNone(found) THEN [movies |-> movies, ret |-> Returned(None)]
        ELSE LET m == Val(found)
                 n == [m EXCEPT !.title = Some(new_title)]
             IN  [movies |-> (movies \ {m}) \cup {n}, ret |-> Returned(Some(n))]

\* DataManager.update_movie
DM_update_movie(movie_id, new_title) ==
    LET found == MovieById(movie_id)
    IN  IF IsNone(found) THEN [movies |-> movies, ret |-> Returned(None)]
        ELSE LET m == Val(found)
                 n == [m EXCEPT !.title = Some(new_title)]
             IN  [movies |-> (movies \ {m}) \cup {n}, ret |-> Returned(Some(n))]

\* delete_movie deleting by the movie's owner instead of by its id.
DM_delete_movie_ByOwner(movie_id) ==
    LET found == MovieById(movie_id)
    IN  IF IsNone(found) THEN [movies |-> movies, order |-> order, ret |-> Returned(FALSE)]
        ELSE LET kept == {m \in movies : m.user_id # Val(found).user_id}
             IN  [movies |-> kept,
                  order |-> SelectSeq(order, LAMBDA i : \E m \in kept : m.id = i),
                  ret |-> Returned(TRUE)]

\* DataManager.delete_movie
DM_delete_movie(movie_id) ==
    LET found == MovieById(movie_id)
    IN  IF IsNone(found) THEN [movies |-> movies, order |-> order, ret |-> Returned(FALSE)]
        ELSE [movies |-> movies \ {Val(found)},
              order |-> SelectSeq(order, LAMBDA i : i # movie_id),
              ret |-> Returned(TRUE)]

\* DataManager.create_user
DM_create_user(name) ==
    IF UserIntegrityOk(name)
    THEN [users |-> users \cup {[id |-> NextUserId, name |-> Val(name)]},
          ret |-> Returned([id |-> NextUserId, name |-> Val(name)])]
    ELSE [users |-> users, ret |-> Raised("IntegrityError")]

\* ------------------------------------------------------------ the routes
Ok(v) == <<"ok", v>>
ValueError == <<"ValueError">>

\* app.validate_user_input
validate_user_input(name) ==
    IF name = <<>> THEN ValueError
    ELSE IF Len(Strip(name)) < MinNameLen THEN ValueError
    ELSE IF Len(Strip(name)) > MaxNameLen THEN ValueError
    ELSE Ok(Strip(name))

\* app.validate_movie_input
validate_movie_input(title) ==
    IF title = <<>> THEN ValueError
    ELSE IF Len(Strip(title)) < MinTitleLen THEN ValueError
    ELSE IF Len(Strip(title)) > MaxTitleLen THEN ValueError
    ELSE Ok(Strip(title))

\* app.get_user_by_id: TRUE when it returns a user, FALSE when it raises.
get_user_by_id(user_id) == \E u \in get_users : u.id = user_id

\* The duplicate check of the add_movie route.
TitleTaken(user_id, title) ==
    \E i \in 1..Len(get_movies(user_id)) :
        Lower(Val(get_movies(user_id)[i].title)) = Lower(title)

\* The duplicate check of the create_user route.
NameTaken(name) == \E u \in get_users : Lower(u.name) = Lower(name)

Call(op, args, ret) == [op |-> op, args |-> args, ret |-> ret]

\* ------------------------------------------------------------ the inputs
Str2010 == <<"2", "0", "1", "0">>
Str88 == <<"8", ".", "8">>
StrDrama == <<"D", "r", "a", "m", "a">>
StrSeries == <<"2", "0", "1", "0", "-">>
StrPadded2010 == <<" ", "2", "0", "1", "0">>

YearFields == {Missing, JStr(NA), JStr(Str2010), JStr(StrPadded2010), JStr(StrSeries)}
RatingFields == {Missing, JStr(NA), JStr(Str88), JStr(<<"x">>)}
GenreFields == {Missing, JStr(NA), JStr(StrDrama)}

Blank(net, found) == Response(net, found, Missing, Missing, Missing, Missing)

NoDataResponses == {Blank(n, FALSE) : n \in NetFailures} \cup {Blank("ok", FALSE)}

FoundResponses ==
    {Response("ok", TRUE, Missing, y, r, g) :
        y \in YearFields, r \in RatingFields, g \in GenreFields}

FoundCanonical == Response("ok", TRUE, JStr(<<"A">>), Missing, Missing, Missing)
FoundNullTitle == Response("ok", TRUE, JNull, Missing, Missing, Missing)

EnrichResponses ==
    NoDataResponses \cup FoundResponses \cup {FoundCanonical, FoundNullTitle}
StoreResponses == {Blank("timeout", FALSE), FoundNullTitle}
RouteResponses == {Blank("timeout", FALSE), FoundNullTitle}

\* Movie(...) as a caller of add_movie_object constructs it.
Movie(id, title, year, genre, rating, user_id) ==
    [id |-> id, title |-> title, year |-> year, genre |-> genre, rating |-> rating,
     user_id |-> user_id]

ApiKeys == {None, Some(<<>>), Some(<<"k">>)}

UserIdArgs == 1..MaxUsers
MovieIdArgs == 1..MaxMovieId
AppMovieIdArgs == 1..MaxAppMovieId
EnrichMovieIdArgs == 1..MaxEnrichId

TitleArgs == {None, Some(<<"a">>)}
EnrichTitleArgs == {Some(<<" ", "A">>)}
NewTitleArgs == {<<"b">>}
NameArgs == {None, Some(<<"a", "l">>)}
MovieArgs ==
    {Movie(None, Some(<<"a">>), Some(1999), Some(StrDrama), Some(Dec(88, -1)), 1),
     Movie(None, None, None, None, None, 1)}
    \cup {Movie(Some(i), Some(<<"a">>), None, None, None, 2) : i \in MovieIdArgs}

RawTitles == {<<>>, <<" ", "a", " ">>}
UpdateRawTitles == {<<>>, <<"b">>}
RawNames ==
    {<<>>, <<" ", "a", " ">>, <<"a", "l">>, <<"b", "o">>}

\* ----------------------------------------------------------- the machine
TypeOK ==
    /\ \A u \in users : u.id \in 1..MaxUsers
    /\ \A m \in movies : m.id \in 1..MaxMovieId
    /\ Len(order) = Cardinality(movies)

Start == Call("init", <<>>, Returned(None))

\* The process as it starts: an empty store, the key as the environment
\* has it.
Init ==
    /\ users = {}
    /\ movies = {}
    /\ order = <<>>
    /\ omdb_api_key \in ApiKeys
    /\ inflight = EmptyBag
    /\ last = Start

\* The process as it starts with an API key configured.
InitKeyed ==
    /\ Init
    /\ omdb_api_key = Some(<<"k">>)

\* data_manager.create_user(name)
create_user(name) ==
    /\ users' = DM_create_user(name).users
    /\ last' = Call("create_user", <<name>>, DM_create_user(name).ret)
    /\ UNCHANGED <<movies, order, omdb_api_key, inflight>>

\* data_manager.add_movie(title, user_id), the provider answering resp
add_movie(title, user_id, resp) ==
    LET r == DM_add_movie(title, user_id, resp)
    IN  /\ movies' = r.movies
        /\ order' = r.order
        /\ last' = Call("add_movie", <<title, user_id, resp>>, r.ret)
        /\ UNCHANGED <<users, omdb_api_key, inflight>>

\* data_manager.add_movie_object(movie)
add_movie_object(movie) ==
    LET r == DM_add_movie_object(movie)
    IN  /\ movies' = r.movies
        /\ order' = r.order
        /\ last' = Call("add_movie_object", <<movie>>, r.ret)
        /\ UNCHANGED <<users, omdb_api_key, inflight>>

\* data_manager.update_movie(movie_id, new_title)
update_movie(movie_id, new_title) ==
    /\ movies' = DM_update_movie(movie_id, new_title).movies
    /\ last' = Call("update_movie", <<movie_id, new_title>>,
                    DM_update_movie(movie_id, new_title).ret)
    /\ UNCHANGED <<users, order, omdb_api_key, inflight>>

\* data_manager.delete_movie(movie_id)
delete_movie(movie_id) ==
    /\ movies' = DM_delete_movie(movie_id).movies
    /\ order' = DM_delete_movie(movie_id).order
    /\ last' = Call("delete_movie", <<movie_id>>, DM_delete_movie(movie_id).ret)
    /\ UNCHANGED <<users, omdb_api_key, inflight>>

\* data_manager.get_movies(user_id)
list_movies(user_id) ==
    /\ last' = Call("get_movies", <<user_id>>, Returned(get_movies(user_id)))
    /\ UNCHANGED <<users, movies, order, omdb_api_key, inflight>>

\* What a route leaves: the tables and the message it flashes.
Outcome(u, m, o, flash) == [users |-> u, movies |-> m, order |-> o, flash |-> flash]

Same(flash) == Outcome(users, movies, order, flash)

\* POST /users, up to the call of data_manager.create_user: the message the
\* request ends with, or the validated name it goes on with.
Route_create_user_checks(raw_name) ==
    LET v == validate_user_input(raw_name)
    IN  IF v = ValueError THEN <<"flash", "invalid">>
        ELSE IF NameTaken(v[2]) THEN <<"flash", "duplicate">>
        ELSE <<"call", v[2]>>

\* POST /users, the insert: the user is added and committed to the table as
\* it is by then.
Route_create_user(name) ==
    Outcome(DM_create_user(Some(name)).users, movies, order, "added")

\* POST /users/<user_id>/movies, up to the call of data_manager.add_movie:
\* the message the request ends with, or the validated title it goes on with.
Route_add_movie_checks(user_id, raw_title) ==
    LET v == validate_movie_input(raw_title)
    IN  IF ~get_user_by_id(user_id) THEN <<"flash", "unexpected">>
        ELSE IF v = ValueError THEN <<"flash", "invalid">>
        ELSE IF TitleTaken(user_id, v[2]) THEN <<"flash", "duplicate">>
        ELSE <<"call", v[2]>>

\* POST /users/<user_id>/movies, from the provider's answer on: the row is
\* built, added and committed against the store as it is by then.
Route_add_movie(user_id, title, resp) ==
    LET r == DM_add_movie(Some(title), user_id, resp)
    IN  Outcome(users, r.movies, r.order,
                IF r.ret[1] = "raise" THEN "unexpected" ELSE "added")

\* POST /users/<user_id>/movies/<movie_id>/update, up to the assignment in
\* data_manager.update_movie: the message the request ends with, or the new
\* title and the title of the row that Movie.query.get has loaded.
Route_update_movie_load(user_id, movie_id, raw_title) ==
    LET v == validate_movie_input(raw_title)
    IN  IF ~get_user_by_id(user_id) THEN <<"flash", "unexpected">>
        ELSE IF v = ValueError THEN <<"flash", "invalid">>
        ELSE IF IsNone(MovieById(movie_id)) THEN <<"flash", "not_found">>
        ELSE <<"call", v[2], Val(MovieById(movie_id)).title>>

\* POST /users/<user_id>/movies/<movie_id>/update, the assignment and the
\* commit.  An assignment of the title the object already has is no change
\* and the commit writes nothing; otherwise the commit updates the row of
\* that id as the table holds it by then, and raises when no row has the id.
Route_update_movie(movie_id, new_title, loaded) ==
    IF loaded = Some(new_title) THEN Same("updated")
    ELSE IF movie_id \notin MovieIds THEN Same("unexpected")
    ELSE Outcome(users, DM_update_movie(movie_id, new_title).movies, order, "updated")

\* POST /users/<user_id>/movies/<movie_id>/delete, up to the call of
\* data_manager.delete_movie: the message the request ends with, or the go-ahead
\* when the movie is in the list of the user's movies.
Route_delete_movie_list(user_id, movie_id) ==
    IF ~get_user_by_id(user_id) THEN <<"flash", "unexpected">>
    ELSE IF ~\E i \in 1..Len(get_movies(user_id)) : get_movies(user_id)[i].id = movie_id
    THEN <<"flash", "not_found">>
    ELSE <<"call">>

\* POST /users/<user_id>/movies/<movie_id>/delete, the delete: the session
\* holds the listed object, so Movie.query.get finds it, and the commit
\* deletes whatever row has that id by then.
Route_delete_movie(movie_id) ==
    LET r == DM_delete_movie(movie_id)
    IN  Outcome(users, r.movies, r.order, "deleted")

\* POST /users/<user_id>/delete, up to the loop: the message the request
\* ends with, or the ids of the movies it has listed.
Route_delete_user_list(user_id) ==
    IF ~\E u \in get_users : u.id = user_id THEN <<"flash", "not_found">>
    ELSE <<"loop", [i \in 1..Len(get_movies(user_id)) |-> get_movies(user_id)[i].id]>>

\* POST /users/<user_id>/delete, reading movie.id at a later turn of the
\* loop: the commit of the turn before has expired the listed objects, so
\* the read reloads the row, and raises when the row is gone; the handler
\* then flashes the error.
Route_delete_user_reload(movie_id) ==
    IF movie_id \notin MovieIds THEN <<"flash", "error">> ELSE <<"call">>

\* POST /users/<user_id>/delete, data_manager.delete_movie(movie.id) in a
\* turn of the loop: the session holds the loaded object, so Movie.query.get
\* finds it, and the commit deletes whatever row has that id by then, none
\* when it is gone.  The user is never deleted.
Route_delete_user(movie_id) ==
    LET r == DM_delete_movie(movie_id)
    IN  Outcome(users, r.movies, r.order, "not_implemented")

\* A request that has been received and not yet answered, with what it has
\* read so far.
Waiting(op, user_id, movie_id, title, loaded, todo, fresh) ==
    [op |-> op, user_id |-> user_id, movie_id |-> movie_id, title |-> title,
     loaded |-> loaded, todo |-> todo, fresh |-> fresh]

\* The waiting requests are a bag: two requests may be alike.
Without(req) == inflight (-) SetToBag({req})

With(req) == inflight (+) SetToBag({req})

Pending == <<"pending">>

\* A request ends: what it leaves and the message it flashes.
Request(op, args, out) ==
    /\ users' = out.users
    /\ movies' = out.movies
    /\ order' = out.order
    /\ last' = Call(op, args, Returned(out.flash))
    /\ UNCHANGED omdb_api_key

\* A request takes a step and goes on.
Step(op, args, out) ==
    /\ users' = out.users
    /\ movies' = out.movies
    /\ order' = out.order
    /\ last' = Call(op, args, Pending)
    /\ UNCHANGED omdb_api_key

\* --------------------------------------------- the DataManager, called directly
DMCreateUser ==
    \E name \in NameArgs :
        /\ Cardinality(users) < MaxUsers
        /\ create_user(name)

DMAddMovie ==
    \E title \in TitleArgs, user_id \in UserIdArgs, resp \in StoreResponses :
        /\ NextMovieId <= MaxMovieId
        /\ add_movie(title, user_id, resp)

DMAddMovieObject ==
    \E movie \in MovieArgs :
        /\ RowId(movie) <= MaxMovieId
        /\ add_movie_object(movie)

DMUpdateMovie ==
    \E movie_id \in MovieIdArgs, new_title \in NewTitleArgs :
        update_movie(movie_id, new_title)

DMDeleteMovie == \E movie_id \in MovieIdArgs : delete_movie(movie_id)

DMGetMovies == \E user_id \in UserIdArgs : list_movies(user_id)

NextDM ==
    \/ DMCreateUser
    \/ DMAddMovie
    \/ DMAddMovieObject
    \/ DMUpdateMovie
    \/ DMDeleteMovie
    \/ DMGetMovies

SpecDM == InitKeyed /\ [][NextDM]_vars

\* ------------------------------------------ add_movie over the provider's answers
EnrichCreateUser ==
    \E name \in NameArgs :
        /\ Cardinality(users) < MaxUsers
        /\ create_user(name)

EnrichAddMovie ==
    \E title \in EnrichTitleArgs, user_id \in UserIdArgs, resp \in EnrichResponses :
        /\ NextMovieId <= MaxEnrichId
        /\ add_movie(title, user_id, resp)

EnrichDeleteMovie == \E movie_id \in EnrichMovieIdArgs : delete_movie(movie_id)

NextEnrich == EnrichCreateUser \/ EnrichAddMovie \/ EnrichDeleteMovie

SpecEnrich == Init /\ [][NextEnrich]_vars

\* --------------------------------------------------------- the application
CreateUserOp == "POST /users"
AddMovieOp == "POST /users/u/movies"
UpdateMovieOp == "POST /users/u/movies/m/update"
DeleteMovieOp == "POST /users/u/movies/m/delete"
DeleteUserOp == "POST /users/u/delete"

\* A create-person request arrives, validates the name and checks it
\* against the stored names.
AppCreateUser ==
    \E raw_name \in RawNames :
        LET c == Route_create_user_checks(raw_name)
        IN  IF c[1] = "flash"
            THEN /\ Request(CreateUserOp, <<>>, Same(c[2]))
                 /\ UNCHANGED inflight
            ELSE /\ BagCardinality(inflight) < MaxInflight
                 /\ UNCHANGED <<users, movies, order, omdb_api_key, last>>
                 /\ inflight' = With(
                        Waiting(CreateUserOp, 0, 0, c[2], None, <<>>, TRUE))

\* A waiting create-person request inserts its user.
AppCreateUserInsert ==
    \E req \in BagToSet(inflight) :
        /\ req.op = CreateUserOp
        /\ Cardinality(users) < MaxUsers
        /\ Request(CreateUserOp, <<>>, Route_create_user(req.title))
        /\ inflight' = Without(req)

\* An add-movie request arrives and runs up to the provider lookup.
AppAddMovie ==
    \E user_id \in UserIdArgs, raw_title \in RawTitles :
        LET c == Route_add_movie_checks(user_id, raw_title)
        IN  IF c[1] = "flash"
            THEN /\ Request(AddMovieOp, <<user_id>>, Same(c[2]))
                 /\ UNCHANGED inflight
            ELSE /\ BagCardinality(inflight) < MaxInflight
                 /\ UNCHANGED <<users, movies, order, omdb_api_key, last>>
                 /\ inflight' = With(
                        Waiting(AddMovieOp, user_id, 0, c[2], None, <<>>, TRUE))

\* The provider answers a waiting add-movie request, or the lookup fails.
AppAddMovieAnswered ==
    \E req \in BagToSet(inflight), resp \in RouteResponses :
        /\ req.op = AddMovieOp
        /\ NextMovieId <= MaxAppMovieId
        /\ Request(AddMovieOp, <<req.user_id>>,
                   Route_add_movie(req.user_id, req.title, resp))
        /\ inflight' = Without(req)

\* An update-movie request arrives and loads the movie.
AppUpdateMovie ==
    \E user_id \in UserIdArgs, movie_id \in AppMovieIdArgs,
       raw_title \in UpdateRawTitles :
        LET c == Route_update_movie_load(user_id, movie_id, raw_title)
        IN  IF c[1] = "flash"
            THEN /\ Request(UpdateMovieOp, <<user_id>>, Same(c[2]))
                 /\ UNCHANGED inflight
            ELSE /\ BagCardinality(inflight) < MaxInflight
                 /\ UNCHANGED <<users, movies, order, omdb_api_key, last>>
                 /\ inflight' = With(
                        Waiting(UpdateMovieOp, user_id, movie_id, c[2], c[3], <<>>, TRUE))

\* A waiting update-movie request assigns the title and commits.
AppUpdateMovieCommit ==
    \E req \in BagToSet(inflight) :
            /\ req.op = UpdateMovieOp
            /\ Request(UpdateMovieOp, <<req.user_id>>,
                       Route_update_movie(req.movie_id, req.title, req.loaded))
            /\ inflight' = Without(req)

\* A delete-movie request arrives and looks the movie up in the user's list.
AppDeleteMovie ==
    \E user_id \in UserIdArgs, movie_id \in AppMovieIdArgs :
        LET c == Route_delete_movie_list(user_id, movie_id)
        IN  IF c[1] = "flash"
            THEN /\ Request(DeleteMovieOp, <<user_id>>, Same(c[2]))
                 /\ UNCHANGED inflight
            ELSE /\ BagCardinality(inflight) < MaxInflight
                 /\ UNCHANGED <<users, movies, order, omdb_api_key, last>>
                 /\ inflight' = With(
                        Waiting(DeleteMovieOp, user_id, movie_id, <<>>, None, <<>>, TRUE))

\* A waiting delete-movie request deletes and commits.
AppDeleteMovieCommit ==
    \E req \in BagToSet(inflight) :
            /\ req.op = DeleteMovieOp
            /\ Request(DeleteMovieOp, <<req.user_id>>,
                       Route_delete_movie(req.movie_id))
            /\ inflight' = Without(req)

\* A delete-person request arrives and lists the person's movies.
AppDeleteUser ==
    \E user_id \in UserIdArgs :
        LET c == Route_delete_user_list(user_id)
        IN  IF c[1] = "flash"
            THEN /\ Request(DeleteUserOp, <<user_id>>, Same(c[2]))
                 /\ UNCHANGED inflight
            ELSE IF c[2] = <<>>
            THEN /\ Request(DeleteUserOp, <<user_id>>, Same("not_implemented"))
                 /\ UNCHANGED inflight
            ELSE /\ BagCardinality(inflight) < MaxInflight
                 /\ UNCHANGED <<users, movies, order, omdb_api_key, last>>
                 /\ inflight' = With(
                                       Waiting(DeleteUserOp, user_id, 0, <<>>, None, c[2], TRUE))

\* A waiting delete-person request, the objects it listed expired by its
\* last commit, reads the id of the next one.
AppDeleteUserReload ==
    \E req \in BagToSet(inflight) :
        LET c == Route_delete_user_reload(Head(req.todo))
        IN  /\ req.op = DeleteUserOp
            /\ ~req.fresh
            /\ IF c[1] = "flash"
               THEN /\ Request(DeleteUserOp, <<req.user_id>>, Same(c[2]))
                    /\ inflight' = Without(req)
               ELSE /\ UNCHANGED <<users, movies, order, omdb_api_key, last>>
                    /\ inflight' = Without(req) (+) SetToBag(
                           {[req EXCEPT !.fresh = TRUE]})

\* A waiting delete-person request that holds the next object loaded deletes
\* it and commits; after the last one the request ends.
AppDeleteUserTurn ==
    \E req \in BagToSet(inflight) :
        LET out == Route_delete_user(Head(req.todo))
        IN  /\ req.op = DeleteUserOp
            /\ req.fresh
            /\ IF Tail(req.todo) = <<>>
               THEN /\ Request(DeleteUserOp, <<req.user_id>>, out)
                    /\ inflight' = Without(req)
               ELSE /\ Step(DeleteUserOp, <<req.user_id>>, out)
                    /\ inflight' = Without(req) (+) SetToBag(
                           {[req EXCEPT !.todo = Tail(req.todo), !.fresh = FALSE]})

NextApp ==
    \/ AppCreateUser
    \/ AppCreateUserInsert
    \/ AppAddMovie
    \/ AppAddMovieAnswered
    \/ AppUpdateMovie
    \/ AppUpdateMovieCommit
    \/ AppDeleteMovie
    \/ AppDeleteMovieCommit
    \/ AppDeleteUser
    \/ AppDeleteUserReload
    \/ AppDeleteUserTurn

SpecApp == InitKeyed /\ [][NextApp]_vars

\* ------------------------------------------------------------ the claims
\* The lookup of the last add_movie call yielded no data: no key, the
\* provider unreachable, timed out or answering with an error status, or a
\* not-found answer.
NoData(key, resp) ==
    \/ Falsy(key)
    \/ resp.net \in NetFailures
    \/ resp.net = "ok" /\ ~resp.found

AddedTitle == last.args[1]
AddedOwner == last.args[2]
AddedResp == last.args[3]

\* C1: when the lookup yields no data, add_movie with a non-empty title and
\* an existing owner raises nothing and returns one Movie, persisted, with
\* exactly the given title, the given owner and no year, genre or rating.
C1_TitleOnlyWithoutData ==
    (/\ last.op = "add_movie"
     /\ NoData(omdb_api_key, AddedResp)
     /\ ~Falsy(AddedTitle)
     /\ AddedOwner \in UserIds)
    => /\ last.ret[1] = "return"
       /\ last.ret[2].title = AddedTitle
       /\ last.ret[2].user_id = AddedOwner
       /\ IsNone(last.ret[2].year)
       /\ IsNone(last.ret[2].genre)
       /\ IsNone(last.ret[2].rating)
       /\ last.ret[2] \in movies
       /\ Cardinality({m \in movies : m.id = last.ret[2].id}) = 1

C1_Witness ==
    /\ last.op = "add_movie"
    /\ ~Falsy(omdb_api_key)
    /\ AddedResp.net = "timeout"
    /\ AddedTitle = Some(<<" ", "A">>)
    /\ AddedOwner \in UserIds
    /\ last.ret[1] = "return"
    /\ last.ret[2] \in movies

\* The lookup of the last add_movie call found the title.
Found(key, resp) == ~Falsy(key) /\ resp.net = "ok" /\ resp.found

Absent(f) == f \in {Missing, JNull, JStr(NA)}

\* The year and the rating among the provider's answers that are no number.
UnparsableYears == {JStr(StrSeries)}
UnparsableRatings == {JStr(<<"x">>)}

\* C2: on a found response add_movie normalises year, rating and genre each
\* on its own: a sentinel, a missing field or an unparsable number is stored
\* as absent and raises nothing, the sentinel string itself is never stored,
\* and a field that parses is stored parsed whatever the other fields hold.
\* (The call raises only when the store refuses the row, a null Title.)
C2_FieldsNormalisedIndependently ==
    (/\ last.op = "add_movie"
     /\ Found(omdb_api_key, AddedResp)
     /\ AddedResp.Title # JNull)
    => /\ last.ret[1] = "return"
       /\ last.ret[2] \in movies
       /\ (Absent(AddedResp.Year) \/ AddedResp.Year \in UnparsableYears)
              => IsNone(last.ret[2].year)
       /\ AddedResp.Year \in {JStr(Str2010), JStr(StrPadded2010)}
              => last.ret[2].year = Some(2010)
       /\ (Absent(AddedResp.imdbRating) \/ AddedResp.imdbRating \in UnparsableRatings)
              => IsNone(last.ret[2].rating)
       /\ AddedResp.imdbRating = JStr(Str88) => last.ret[2].rating = Some(<<88, -1>>)
       /\ Absent(AddedResp.Genre) => IsNone(last.ret[2].genre)
       /\ last.ret[2].genre # Some(NA)
       /\ AddedResp.Genre = JStr(StrDrama) => last.ret[2].genre = Some(StrDrama)

C2_Witness ==
    /\ last.op = "add_movie"
    /\ Found(omdb_api_key, AddedResp)
    /\ AddedResp.Year = JStr(Str2010)
    /\ AddedResp.imdbRating = JStr(<<"x">>)
    /\ AddedResp.Genre = JStr(NA)
    /\ last.ret[1] = "return"
    /\ last.ret[2].year = Some(2010)
    /\ IsNone(last.ret[2].rating)
    /\ IsNone(last.ret[2].genre)

\* C3: a call of add_movie that returns adds exactly one Movie row, the one
\* it returns; a call that raises adds none; and a later operation adds no
\* row but its own (add_movie_object the object it is given, every other
\* operation none), so nothing a failed call left behind is committed later.
C3_OneRowOrNone ==
    [][/\ (last'.op = "add_movie" /\ last'.ret[1] = "return")
            => /\ movies \subseteq movies'
               /\ movies' \ movies = {last'.ret[2]}
               /\ Cardinality(movies') = Cardinality(movies) + 1
       /\ (last'.op = "add_movie" /\ last'.ret[1] = "raise") => movies' = movies
       /\ last'.op = "add_movie_object"
            => movies' \ movies
                 \subseteq (IF last'.ret[1] = "return" THEN {last'.ret[2]} ELSE {})
       /\ last'.op \notin {"add_movie", "add_movie_object"}
            => {m.id : m \in movies'} \subseteq MovieIds]_vars

C3_Witness ==
    /\ last.op = "add_movie"
    /\ last.ret[1] = "raise"
    /\ ~IsNone(AddedTitle)
    /\ movies # {}

\* C4: every stored Movie has an owner reference that identifies a Person
\* in the store.
C4_OwnerExists == \A m \in movies : m.user_id \in UserIds

\* C5: delete_movie on an id in the store removes that row alone, leaves
\* every Person as it was and returns True; called again with the same id
\* it returns False and changes nothing.
C5_DeleteExactlyThatRow ==
    [][last'.op = "delete_movie"
        => /\ users' = users
           /\ last'.args[1] \in MovieIds
                => /\ last'.ret = Returned(TRUE)
                   /\ movies' = {m \in movies : m.id # last'.args[1]}
                   /\ Cardinality(movies') = Cardinality(movies) - 1
           /\ (last.op = "delete_movie" /\ last.args = last'.args /\ last.ret = Returned(TRUE))
                => /\ last'.ret = Returned(FALSE)
                   /\ movies' = movies]_vars

C5_Witness ==
    /\ last.op = "delete_movie"
    /\ last.ret = Returned(TRUE)
    /\ movies # {}
    /\ users # {}

\* C6: update_movie with an id that is not in the store returns None and
\* leaves the Movie rows, and every field of each, as they were.
C6_UpdateMissingChangesNothing ==
    [][(last'.op = "update_movie" /\ last'.args[1] \notin MovieIds)
        => /\ last'.ret = Returned(None)
           /\ movies' = movies]_vars

C6_Witness ==
    /\ last.op = "update_movie"
    /\ last.ret = Returned(None)
    /\ movies # {}

Listed == last.ret[2]

\* C7: get_movies(owner id) returns exactly the Movies stored with that
\* owner, in the order of their creation, and the empty sequence when the
\* owner has no movies or is unknown.
C7_ListInCreationOrder ==
    last.op = "get_movies"
    => /\ {Listed[i] : i \in 1..Len(Listed)} = {m \in movies : m.user_id = last.args[1]}
       /\ [i \in 1..Len(Listed) |-> Listed[i].id]
            = SelectSeq(order, LAMBDA id : \E m \in movies :
                                   m.id = id /\ m.user_id = last.args[1])
       /\ last.args[1] \notin UserIds => Listed = <<>>

\* C8: no person's list holds two Movies whose titles are equal ignoring
\* case.
C8_NoDuplicateTitles ==
    \A m1, m2 \in movies :
        (m1.id # m2.id /\ m1.user_id = m2.user_id)
        => Lower(Val(m1.title)) # Lower(Val(m2.title))

\* C9: the delete-person request on an existing person removes Movies of
\* that person only, has removed every one of them when it ends, and leaves
\* every Person record; on a nonexistent person it changes nothing.
C9_DeletePersonKeepsPerson ==
    [][last'.op = DeleteUserOp
        => /\ users' = users
           /\ movies' \subseteq movies
           /\ \A m \in movies \ movies' : m.user_id = last'.args[1]
           /\ (last'.args[1] \in UserIds /\ last'.ret # Pending)
                => \A m \in movies' : m.user_id # last'.args[1]
           /\ last'.args[1] \notin UserIds => movies' = movies]_vars

\* C10: a movie-update or movie-delete request made under person u's id
\* neither retitles nor deletes a Movie owned by another person.
C10_OnlyOwnMovies ==
    [][last'.op \in {UpdateMovieOp, DeleteMovieOp}
        => \A m \in movies : m.user_id # last'.args[1] => m \in movies']_vars

====
